---- MODULE Spec2Model ----
(***************************************************************************)
(* quickserve: the in-memory UserStore of main.go (a map and a counter     *)
(* guarded by one sync.RWMutex) and the goroutines that call its four      *)
(* methods Create, Get, List and Delete.                                   *)
(*                                                                         *)
(* Every goroutine is a loop: it invokes one method with arguments drawn   *)
(* from small sets, runs the method statement by statement, returns, and   *)
(* invokes again.  A pc label names the source line the goroutine is at.   *)
(*                                                                         *)
(* Spec has the goroutines call the store directly; LiveSpec adds the      *)
(* scheduling; RWSpec is one writer and several readers; HttpSpec puts the *)
(* HTTP handlers of main.go in front of the store, with one client.        *)
(***************************************************************************)
EXTENDS Integers, Sequences, FiniteSets, TLC

\* ------------------------------------------------------------------ bounds
\* Number of goroutines that call the store.
NThreads == 2
\* Number of Create calls ever invoked (caps s.next).
MaxCreates == 2

Threads == 1..NThreads
NoThread == 0
\* Ids a caller may pass to Get and Delete: every id that can be issued, and
\* one that never is.
Ids == 1..(MaxCreates + 1)
\* What a caller passes to Create (main_test.go:17).
Names == {"Alice"}
Emails == {"alice@test.com"}

\* The zero value of User (main.go:13-17), what Get returns with ok = false.
ZeroUser == [ID |-> 0, Name |-> "", Email |-> ""]
\* No call yet.
NoCall == [op |-> "none", id |-> 0, name |-> "", email |-> ""]

\* ------------------------------------------------------------------- HTTP
\* net/http status codes the handlers write.
StatusOK == 200
StatusCreated == 201
StatusNoContent == 204
StatusBadRequest == 400
StatusNotFound == 404

\* The goroutine that serves the client's requests, one after the other.
HttpThread == 1

\* A member of a JSON object: a string, a number, or not there.
JsonString(v) == [t |-> "string", s |-> v]
JsonNumber == [t |-> "number", s |-> ""]
JsonAbsent == [t |-> "absent", s |-> ""]
\* A request body: a JSON object with its members name and email, a text
\* that is not JSON, or nothing at all.
JsonObject(n, e) == [kind |-> "object", name |-> n, email |-> e]
NotJson == [kind |-> "syntax error", name |-> JsonAbsent, email |-> JsonAbsent]
NoBody == [kind |-> "empty", name |-> JsonAbsent, email |-> JsonAbsent]

\* The bodies a client posts: {"name":"Alice","email":"alice@test.com"}, {},
\* {"name":5,"email":"alice@test.com"}, {"name": and the empty body.
PostBodies ==
  {JsonObject(JsonString(n), JsonString(e)) : n \in Names, e \in Emails}
    \cup {JsonObject(JsonAbsent, JsonAbsent)}
    \cup {JsonObject(JsonNumber, JsonString(e)) : e \in Emails}
    \cup {NotJson, NoBody}

\* The {id} segments a client puts in the path: 1, 2, 999, -1, abc, 1x.
PathIds == {<<"1">>, <<"2">>, <<"9", "9", "9">>, <<"-", "1">>,
            <<"a", "b", "c">>, <<"1", "x">>}

NoReq == [method |-> "", route |-> "", id |-> <<>>, body |-> NoBody]
\* The requests the routes of Routes() match.
Requests ==
  {[method |-> "GET", route |-> "/users", id |-> <<>>, body |-> NoBody],
   [method |-> "GET", route |-> "/health", id |-> <<>>, body |-> NoBody]}
    \cup {[method |-> m, route |-> "/users/{id}", id |-> i, body |-> NoBody] :
            m \in {"GET", "DELETE"}, i \in PathIds}
    \cup {[method |-> "POST", route |-> "/users", id |-> <<>>, body |-> b] :
            b \in PostBodies}

\* What a handler writes as the body: a text, a User, a list of Users.
NoContent == [kind |-> "none", text |-> "", user |-> ZeroUser, list |-> <<>>]
TextBody(x) == [NoContent EXCEPT !.kind = "text", !.text = x]
UserBody(u) == [NoContent EXCEPT !.kind = "user", !.user = u]
ListBody(l) == [NoContent EXCEPT !.kind = "list", !.list = l]
NoResp == [req |-> NoReq, status |-> 0, body |-> NoContent]

VARIABLES
  users,      \* s.users: map[int]User, a function on the keys present
  next,       \* s.next
  mu,         \* s.mu: the sync.RWMutex
  pc,         \* per goroutine: the statement it is at
  call,       \* per goroutine: the method it is in and its arguments
  user,       \* per goroutine: the local User of Create and Get, which they return
  ok,         \* per goroutine: the local ok of Get, which it returns
  lusers,     \* per goroutine: the local slice users of List, which it returns
  visited,    \* per goroutine: keys the range loop of List has produced
  createLog,  \* history: the records Create returned, in order of return
  deleted,    \* history: per id, how many Delete calls returned true for it
  snap,       \* history, per goroutine: the map as it was when its call got the lock
  lin,        \* history: a plain map and counter on which each call is applied in
              \* one step, at the instant it gets the lock, and what it returns there
  http        \* the HTTP exchange in hand: the request being handled, the response
              \* written, and history of the exchange

vars == <<users, next, mu, pc, call, user, ok, lusers, visited,
          createLog, deleted, snap, lin, http>>

store == <<users, next>>
locals == <<user, ok, lusers, visited>>
history == <<createLog, deleted, snap, lin>>

\* ----------------------------------------------------------------- helpers
SetOf(s) == {s[i] : i \in 1..Len(s)}
IdsOf(s) == {s[i].ID : i \in 1..Len(s)}
RECURSIVE Sum(_, _)
Sum(f, S) == IF S = {} THEN 0 ELSE LET x == CHOOSE y \in S : TRUE IN f[x] + Sum(f, S \ {x})

\* Mutant: the value goes under the key after k.
Put_KeyAfter(m, k, v) == [x \in (DOMAIN m) \cup {k + 1} |-> IF x = k + 1 THEN v ELSE m[x]]
\* m[k] = v on a Go map
Put(m, k, v) == [x \in (DOMAIN m) \cup {k} |-> IF x = k THEN v ELSE m[x]]
\* Mutant: delete removes nothing.
Remove_Nothing(m, k) == m
\* Mutant: delete empties the map.
Remove_All(m, k) == <<>>
\* delete(m, k)
Remove(m, k) == [x \in (DOMAIN m) \ {k} |-> m[x]]
\* The values of a Go map
Values(m) == {m[k] : k \in DOMAIN m}

InCall(t) == pc[t] # "idle"

\* ---------------------------------------------------------------- s.mu
\* sync.RWMutex as Go implements it: w is the inner mutex that serialises
\* writers; pending says a writer holding w has announced itself, which makes
\* every later RLock wait; readers are the goroutines holding the read lock;
\* rblocked are the readers parked until the writer unlocks.
FreeMu == [w |-> NoThread, pending |-> FALSE, readers |-> {}, rblocked |-> {}]

\* Which lock each method takes: "W" is Lock/Unlock, "R" is RLock/RUnlock
\* ("N", no lock at all, is what a method without its two lock lines would be).
\* Mutant: Create takes the read lock.
CreateLockMode_R == "R"
CreateLockMode == "W"
\* Mutant: Get takes the write lock.
GetLockMode_W == "W"
\* Mutant: Get takes no lock.
GetLockMode_N == "N"
GetLockMode == "R"
\* Mutant: List takes no lock.
ListLockMode_N == "N"
ListLockMode == "R"
\* Mutant: Delete takes the read lock.
DeleteLockMode_R == "R"
\* Mutant: Delete takes no lock.
DeleteLockMode_N == "N"
DeleteLockMode == "W"

LockMode(o) ==
  CASE o = "Create" -> CreateLockMode
    [] o = "Get" -> GetLockMode
    [] o = "List" -> ListLockMode
    [] o = "Delete" -> DeleteLockMode

\* First statement of each method after its lock call.
Entry(o) ==
  CASE o = "Create" -> "Create_39"
    [] o = "Get" -> "Get_54"
    [] o = "List" -> "List_64"
    [] o = "Delete" -> "Delete_75"

\* Where a call starts: at its lock call.
StartPc(o) ==
  CASE LockMode(o) = "W" -> "Lock"
    [] LockMode(o) = "R" -> "RLock"
    [] OTHER -> Entry(o)

\* The statements between a method's lock call and its return.
Body == {"Create_39", "Create_44", "Create_45", "Create_46",
         "Get_54", "Get_55", "List_64", "List_67",
         "Delete_75", "Delete_76", "Delete_77", "Delete_79"}
InBody(t) == pc[t] \in Body
Writing(t) == InBody(t) /\ call[t].op \in {"Create", "Delete"}
Reading(t) == InBody(t) /\ call[t].op \in {"Get", "List"}

\* s.mu.Unlock(): readers parked behind the writer all get the read lock.
MuUnlock(m, t) ==
  [w |-> NoThread, pending |-> FALSE, readers |-> m.readers \cup m.rblocked, rblocked |-> {}]
\* s.mu.RUnlock()
MuRUnlock(m, t) == [m EXCEPT !.readers = @ \ {t}]
\* Mutant: every method defers RUnlock, the writers too.
Release_RUnlock(m, t) == MuRUnlock(m, t)
\* The deferred unlock of the method t is in.
Release(m, t) ==
  CASE LockMode(call[t].op) = "W" -> MuUnlock(m, t)
    [] LockMode(call[t].op) = "R" -> MuRUnlock(m, t)
    [] OTHER -> m

\* ------------------------------------------- the methods, run one at a time
\* What a method returns: Create a record, Get a record and ok, List the
\* records in some order, Delete a boolean.
NoRet == [user |-> ZeroUser, ok |-> FALSE, list |-> {}]

\* Create(name, email) on the plain store a (main.go:39-46).
SeqCreate(a, n, e) ==
  LET u == [ID |-> a.next, Name |-> n, Email |-> e]
  IN  [store |-> [users |-> [k \in DOMAIN a.users \cup {a.next} |->
                              IF k = a.next THEN u ELSE a.users[k]],
                  next |-> a.next + 1],
       ret |-> [NoRet EXCEPT !.user = u]]

\* Get(id) on the plain store a (main.go:54-55).
SeqGet(a, id) ==
  [store |-> a,
   ret |-> IF id \in DOMAIN a.users
             THEN [NoRet EXCEPT !.user = a.users[id], !.ok = TRUE]
             ELSE NoRet]

\* List() on the plain store a (main.go:63-67).
SeqList(a) ==
  [store |-> a, ret |-> [NoRet EXCEPT !.list = {a.users[k] : k \in DOMAIN a.users}]]

\* Delete(id) on the plain store a (main.go:75-79).
SeqDelete(a, id) ==
  [store |-> [a EXCEPT !.users = [k \in DOMAIN a.users \ {id} |-> a.users[k]]],
   ret |-> [NoRet EXCEPT !.ok = id \in DOMAIN a.users]]

SeqApply(a, c) ==
  CASE c.op = "Create" -> SeqCreate(a, c.name, c.email)
    [] c.op = "Get" -> SeqGet(a, c.id)
    [] c.op = "List" -> SeqList(a)
    [] c.op = "Delete" -> SeqDelete(a, c.id)

\* History: the call c of t takes effect on the plain store, all at once.
Linearize(t, c) ==
  [store |-> SeqApply(lin.store, c).store,
   ret |-> [lin.ret EXCEPT ![t] = SeqApply(lin.store, c).ret]]

\* History: a call that gets the lock remembers the map of that instant, and
\* takes effect on the plain store at that instant.
Entered(t, o) ==
  /\ snap' = [snap EXCEPT ![t] = users]
  /\ lin' = Linearize(t, call[t])

\* s.mu.Lock(), first half: take the inner mutex and announce the writer.
MuLock(t) ==
  /\ pc[t] = "Lock"
  /\ mu.w = NoThread
  /\ mu' = [mu EXCEPT !.w = t, !.pending = TRUE]
  /\ pc' = [pc EXCEPT ![t] = "LockWait"]
  /\ UNCHANGED <<store, call, locals, history>>
  /\ UNCHANGED http

\* s.mu.Lock(), second half: wait until the readers that were in have left.
MuLockEnter(t) ==
  /\ pc[t] = "LockWait"
  /\ mu.readers = {}
  /\ pc' = [pc EXCEPT ![t] = Entry(call[t].op)]
  /\ Entered(t, call[t].op)
  /\ UNCHANGED <<store, mu, call, locals, createLog, deleted>>
  /\ UNCHANGED http

\* s.mu.RLock(): enter, or park behind an announced writer.
MuRLock(t) ==
  /\ pc[t] = "RLock"
  /\ IF mu.pending
       THEN /\ mu' = [mu EXCEPT !.rblocked = @ \cup {t}]
            /\ pc' = [pc EXCEPT ![t] = "RLockWait"]
            /\ UNCHANGED <<snap, lin>>
       ELSE /\ mu' = [mu EXCEPT !.readers = @ \cup {t}]
            /\ pc' = [pc EXCEPT ![t] = Entry(call[t].op)]
            /\ Entered(t, call[t].op)
  /\ UNCHANGED <<store, call, locals, createLog, deleted>>
  /\ UNCHANGED http

\* s.mu.RLock(), woken by the writer's Unlock.
MuRLockWake(t) ==
  /\ pc[t] = "RLockWait"
  /\ t \in mu.readers
  /\ pc' = [pc EXCEPT ![t] = Entry(call[t].op)]
  /\ Entered(t, call[t].op)
  /\ UNCHANGED <<store, mu, call, locals, createLog, deleted>>
  /\ UNCHANGED http

\* -------------------------------------------------------------- callers
CreatesInvoked ==
  Len(createLog) + Cardinality({t \in DOMAIN pc : InCall(t) /\ call[t].op = "Create"})

\* A goroutine calls a store method (main.go:96, 111, 133, 149 and the tests);
\* h is what becomes of the HTTP exchange in hand.
InvokeIn(t, c, h) ==
  /\ pc[t] = "idle"
  /\ http' = h
  /\ pc' = [pc EXCEPT ![t] = StartPc(c.op)]
  /\ call' = [call EXCEPT ![t] = c]
  /\ snap' = [snap EXCEPT ![t] =
       IF StartPc(c.op) = Entry(c.op) THEN users ELSE <<>>]
  /\ lin' = IF StartPc(c.op) = Entry(c.op) THEN Linearize(t, c) ELSE lin
  /\ UNCHANGED <<store, mu, locals, createLog, deleted>>

\* A call made outside any HTTP exchange, as the tests of the store make them.
Invoke(t, c) == InvokeIn(t, c, http)

InvokeCreate(t) ==
  /\ CreatesInvoked < MaxCreates
  /\ \E n \in Names, e \in Emails :
       Invoke(t, [op |-> "Create", id |-> 0, name |-> n, email |-> e])

\* s.store.Get(id), main.go:111, with an id of S
InvokeGetOf(t, S) ==
  \E i \in S : Invoke(t, [op |-> "Get", id |-> i, name |-> "", email |-> ""])

InvokeGet(t) == InvokeGetOf(t, Ids)

InvokeList(t) == Invoke(t, [op |-> "List", id |-> 0, name |-> "", email |-> ""])

\* s.store.Delete(id), main.go:149, with an id of S
InvokeDeleteOf(t, S) ==
  \E i \in S : Invoke(t, [op |-> "Delete", id |-> i, name |-> "", email |-> ""])

InvokeDelete(t) == InvokeDeleteOf(t, Ids)

\* The call of t returns to its caller: the deferred unlock runs and the frame
\* (arguments, locals, results) is gone.
ReturnWith(t, m) ==
  /\ mu' = m
  /\ pc' = [pc EXCEPT ![t] = "idle"]
  /\ call' = [call EXCEPT ![t] = NoCall]
  /\ user' = [user EXCEPT ![t] = ZeroUser]
  /\ ok' = [ok EXCEPT ![t] = FALSE]
  /\ lusers' = [lusers EXCEPT ![t] = <<>>]
  /\ visited' = [visited EXCEPT ![t] = {}]
  /\ snap' = [snap EXCEPT ![t] = <<>>]
  /\ lin' = [lin EXCEPT !.ret[t] = NoRet]

Return(t) == ReturnWith(t, Release(mu, t))

\* --------------------------------------------------------------- Create
\* Mutant: the id is the number of records plus one.
NewId_Len == Cardinality(DOMAIN users) + 1
\* The id Create gives the new record, and the key it stores it under: s.next.
NewId == next

\* user := User{ID: s.next, Name: name, Email: email}
Create_39(t) ==
  /\ pc[t] = "Create_39"
  /\ user' = [user EXCEPT ![t] =
       [ID |-> NewId, Name |-> call[t].name, Email |-> call[t].email]]
  /\ pc' = [pc EXCEPT ![t] = "Create_44"]
  /\ UNCHANGED <<store, mu, call, ok, lusers, visited, history>>
  /\ UNCHANGED http

\* s.users[s.next] = user
Create_44(t) ==
  /\ pc[t] = "Create_44"
  /\ users' = Put(users, NewId, user[t])
  /\ pc' = [pc EXCEPT ![t] = "Create_45"]
  /\ UNCHANGED <<next, mu, call, locals, history>>
  /\ UNCHANGED http

\* Mutant: s.next is left as it is.
NextAfterCreate_Same == next
\* Mutant: s.next += 2.
NextAfterCreate_Skip == next + 2
\* Mutant: s.next--.
NextAfterCreate_Dec == next - 1
\* The value s.next++ stores.
NextAfterCreate == next + 1

\* s.next++
Create_45(t) ==
  /\ pc[t] = "Create_45"
  /\ next' = NextAfterCreate
  /\ pc' = [pc EXCEPT ![t] = "Create_46"]
  /\ UNCHANGED <<users, mu, call, locals, history>>
  /\ UNCHANGED http

\* return user, and the deferred s.mu.Unlock()
CreateReturns(t, h) ==
  /\ pc[t] = "Create_46"
  /\ createLog' = Append(createLog, user[t])
  /\ Return(t)
  /\ UNCHANGED <<store, deleted>>
  /\ http' = h

\* return user, outside any HTTP exchange
Create_46(t) == CreateReturns(t, http)

\* ------------------------------------------------------------------ Get
\* Mutant: the record found is dropped.
Lookup_ZeroUser(m, id) == [user |-> ZeroUser, ok |-> id \in DOMAIN m]
\* What user, ok := s.users[id] yields.
Lookup(m, id) ==
  IF id \in DOMAIN m THEN [user |-> m[id], ok |-> TRUE]
                     ELSE [user |-> ZeroUser, ok |-> FALSE]

\* user, ok := s.users[id]
Get_54(t) ==
  /\ pc[t] = "Get_54"
  /\ ok' = [ok EXCEPT ![t] = Lookup(users, call[t].id).ok]
  /\ user' = [user EXCEPT ![t] = Lookup(users, call[t].id).user]
  /\ pc' = [pc EXCEPT ![t] = "Get_55"]
  /\ UNCHANGED <<store, mu, call, lusers, visited, history>>
  /\ UNCHANGED http

\* return user, ok; and the deferred s.mu.RUnlock()
GetReturns(t, h) ==
  /\ pc[t] = "Get_55"
  /\ Return(t)
  /\ UNCHANGED <<store, createLog, deleted>>
  /\ http' = h

\* return user, ok; outside any HTTP exchange
Get_55(t) == GetReturns(t, http)

\* ----------------------------------------------------------------- List
\* The keys the range loop has still to produce.
Unvisited(t) == (DOMAIN users) \ visited[t]

\* One round of: for _, u := range s.users { users = append(users, u) }.
\* The order in which range produces the keys is not specified.
List_64(t) ==
  /\ pc[t] = "List_64"
  /\ \E k \in Unvisited(t) :
       /\ lusers' = [lusers EXCEPT ![t] = Append(@, users[k])]
       /\ visited' = [visited EXCEPT ![t] = @ \cup {k}]
  /\ UNCHANGED <<store, mu, pc, call, user, ok, history>>
  /\ UNCHANGED http

\* Mutant: the loop stops after its first round.
RangeDone_First(t) == Unvisited(t) = {} \/ visited[t] # {}
\* Whether the range loop is over.
RangeDone(t) == Unvisited(t) = {}

\* The range loop ends.
List_66(t) ==
  /\ pc[t] = "List_64"
  /\ RangeDone(t)
  /\ pc' = [pc EXCEPT ![t] = "List_67"]
  /\ UNCHANGED <<store, mu, call, locals, history>>
  /\ UNCHANGED http

\* return users; and the deferred s.mu.RUnlock()
ListReturns(t, h) ==
  /\ pc[t] = "List_67"
  /\ Return(t)
  /\ UNCHANGED <<store, createLog, deleted>>
  /\ http' = h

\* return users, outside any HTTP exchange
List_67(t) == ListReturns(t, http)

\* --------------------------------------------------------------- Delete
\* if _, ok := s.users[id]; ok {
Delete_75(t) ==
  /\ pc[t] = "Delete_75"
  /\ pc' = [pc EXCEPT ![t] =
       IF Lookup(users, call[t].id).ok THEN "Delete_76" ELSE "Delete_79"]
  /\ UNCHANGED <<store, mu, call, locals, history>>
  /\ UNCHANGED http

\* delete(s.users, id)
Delete_76(t) ==
  /\ pc[t] = "Delete_76"
  /\ users' = Remove(users, call[t].id)
  /\ pc' = [pc EXCEPT ![t] = "Delete_77"]
  /\ UNCHANGED <<next, mu, call, locals, history>>
  /\ UNCHANGED http

\* return true; and the deferred s.mu.Unlock()
DeleteReturnsTrue(t, h) ==
  /\ pc[t] = "Delete_77"
  /\ deleted' = [deleted EXCEPT ![call[t].id] = @ + 1]
  /\ Return(t)
  /\ UNCHANGED <<store, createLog>>
  /\ http' = h

\* return true, outside any HTTP exchange
Delete_77(t) == DeleteReturnsTrue(t, http)

\* return false; and the deferred s.mu.Unlock(); h is what becomes of the
\* HTTP exchange in hand
DeleteReturnsFalse(t, h) ==
  /\ pc[t] = "Delete_79"
  /\ Return(t)
  /\ UNCHANGED <<store, createLog, deleted>>
  /\ http' = h

\* Mutant: return false without unlocking.
Delete_79_NoUnlock(t) ==
  /\ pc[t] = "Delete_79"
  /\ ReturnWith(t, mu)
  /\ UNCHANGED <<store, createLog, deleted>>
  /\ UNCHANGED http

\* return false, outside any HTTP exchange
Delete_79(t) == DeleteReturnsFalse(t, http)

\* ------------------------------------------------------------- handlers
\* Everything but the HTTP exchange.
server == <<users, next, mu, pc, call, user, ok, lusers, visited,
            createLog, deleted, snap, lin>>

DigitChars == <<"0", "1", "2", "3", "4", "5", "6", "7", "8", "9">>
IsDigit(c) == \E i \in 1..Len(DigitChars) : DigitChars[i] = c
DigitVal(c) == (CHOOSE i \in 1..Len(DigitChars) : DigitChars[i] = c) - 1
\* The number a text of decimal digits writes.
RECURSIVE Decimal(_)
Decimal(s) ==
  IF s = <<>> THEN 0
  ELSE 10 * Decimal(SubSeq(s, 1, Len(s) - 1)) + DigitVal(s[Len(s)])

\* Mutant: id, _ := strconv.Atoi(idStr), the error dropped.
Atoi_ErrDropped(s) == [err |-> FALSE, val |-> 0]
\* strconv.Atoi: an optional sign, then one or more decimal digits; anything
\* else is an error.
Atoi(s) ==
  LET signed == s # <<>> /\ s[1] \in {"+", "-"}
      digits == IF signed THEN Tail(s) ELSE s
      bad == digits = <<>> \/ \E i \in 1..Len(digits) : ~IsDigit(digits[i])
  IN  [err |-> bad,
       val |-> IF bad THEN 0
               ELSE IF signed /\ s[1] = "-" THEN 0 - Decimal(digits)
               ELSE Decimal(digits)]

\* Mutant: the error of Decode is dropped.
Decode_ErrDropped(b) == [err |-> FALSE, name |-> b.name.s, email |-> b.email.s]
\* json.NewDecoder(r.Body).Decode(&req) into struct{Name, Email string}: an
\* error unless the body is a JSON object whose name and email, where there,
\* are strings; a member that is not there leaves its field "".
Decode(b) ==
  [err |-> b.kind # "object" \/ b.name.t = "number" \/ b.email.t = "number",
   name |-> b.name.s,
   email |-> b.email.s]

\* History: the place of the exchanges so far in the sequence POST /users
\* with a well-formed body, GET /users/1, DELETE /users/1, GET /users/1 on a
\* fresh server: how many of its requests have been received, in that order
\* and with no other request; Off once a request departs from it.
E2eSteps ==
  <<[method |-> "POST", route |-> "/users", id |-> <<>>],
    [method |-> "GET", route |-> "/users/{id}", id |-> <<"1">>],
    [method |-> "DELETE", route |-> "/users/{id}", id |-> <<"1">>],
    [method |-> "GET", route |-> "/users/{id}", id |-> <<"1">>]>>
Off == Len(E2eSteps) + 1
WellFormed(b) ==
  b.kind = "object" /\ b.name.t = "string" /\ b.email.t = "string"
E2eAfter(k, r) ==
  IF /\ k + 1 < Off
     /\ [method |-> r.method, route |-> r.route, id |-> r.id] = E2eSteps[k + 1]
     /\ r.method = "POST" => WellFormed(r.body)
  THEN k + 1 ELSE Off

\* A request arrives, the one before having been answered.
Receive(r) ==
  /\ http.req = NoReq
  /\ pc[HttpThread] = "idle"
  /\ (r.method = "POST" /\ ~Decode(r.body).err) => CreatesInvoked < MaxCreates
  /\ http' = [req |-> r, resp |-> NoResp,
              pre |-> [users |-> users, next |-> next],
              called |-> FALSE,
              e2e |-> E2eAfter(http.e2e, r)]
  /\ UNCHANGED server

Handles(m, p) == http.req.method = m /\ http.req.route = p
\* The handler writes status and body: the request is answered.
Respond(status, body) ==
  [http EXCEPT !.req = NoReq,
               !.resp = [req |-> http.req, status |-> status, body |-> body]]
\* The handler calls a method of the store.
Calling == [http EXCEPT !.called = TRUE]
StoreCall(o, i, n, e) == [op |-> o, id |-> i, name |-> n, email |-> e]

\* GET /health: w.Write([]byte("OK"))
HandleHealth(t) ==
  /\ Handles("GET", "/health")
  /\ pc[t] = "idle"
  /\ http' = Respond(StatusOK, TextBody("OK"))
  /\ UNCHANGED server

\* HandleListUsers: users := s.store.List(), the call
HandleListUsers_96(t) ==
  /\ Handles("GET", "/users")
  /\ InvokeIn(t, StoreCall("List", 0, "", ""), Calling)

\* HandleListUsers: List returns, and json.NewEncoder(w).Encode(users)
HandleListUsers_99(t) ==
  ListReturns(t, Respond(StatusOK, ListBody(lusers[t])))

\* HandleGetUser: strconv.Atoi(idStr); 400 on error, else s.store.Get(id)
HandleGetUser_105(t) ==
  /\ Handles("GET", "/users/{id}")
  /\ IF Atoi(http.req.id).err
       THEN /\ pc[t] = "idle"
            /\ http' = Respond(StatusBadRequest, TextBody("invalid id"))
            /\ UNCHANGED server
       ELSE InvokeIn(t, StoreCall("Get", Atoi(http.req.id).val, "", ""), Calling)

\* Mutant: HandleGetUser does not look at ok.
GetUserStatus_OK(found) == StatusOK
\* HandleGetUser: 404 if !ok, else the implicit 200
GetUserStatus(found) == IF found THEN StatusOK ELSE StatusNotFound

\* HandleGetUser: Get returns; "user not found", or Encode(user)
HandleGetUser_111(t) ==
  GetReturns(t, Respond(GetUserStatus(ok[t]),
                        IF GetUserStatus(ok[t]) = StatusNotFound
                          THEN TextBody("user not found") ELSE UserBody(user[t])))

\* HandleCreateUser: Decode; 400 on error, else s.store.Create(req.Name, req.Email)
HandleCreateUser_128(t) ==
  /\ Handles("POST", "/users")
  /\ IF Decode(http.req.body).err
       THEN /\ pc[t] = "idle"
            /\ http' = Respond(StatusBadRequest, TextBody("invalid request body"))
            /\ UNCHANGED server
       ELSE InvokeIn(t, StoreCall("Create", 0, Decode(http.req.body).name,
                                  Decode(http.req.body).email), Calling)

\* HandleCreateUser: Create returns; WriteHeader(201) and Encode(user)
HandleCreateUser_133(t) ==
  CreateReturns(t, Respond(StatusCreated, UserBody(user[t])))

\* HandleDeleteUser: strconv.Atoi(idStr); 400 on error, else s.store.Delete(id)
HandleDeleteUser_143(t) ==
  /\ Handles("DELETE", "/users/{id}")
  /\ IF Atoi(http.req.id).err
       THEN /\ pc[t] = "idle"
            /\ http' = Respond(StatusBadRequest, TextBody("invalid id"))
            /\ UNCHANGED server
       ELSE InvokeIn(t, StoreCall("Delete", Atoi(http.req.id).val, "", ""), Calling)

\* HandleDeleteUser: Delete returns false; 404 "user not found"
HandleDeleteUser_150(t) ==
  DeleteReturnsFalse(t, Respond(StatusNotFound, TextBody("user not found")))

\* HandleDeleteUser: Delete returns true; WriteHeader(204)
HandleDeleteUser_154(t) ==
  DeleteReturnsTrue(t, Respond(StatusNoContent, NoContent))

\* ------------------------------------------------------- specification
\* NewUserStore(): an empty map and next = 1; none of the goroutines T has
\* called yet.
InitOf(T) ==
  /\ users = <<>>
  /\ next = 1
  /\ mu = FreeMu
  /\ pc = [t \in T |-> "idle"]
  /\ call = [t \in T |-> NoCall]
  /\ user = [t \in T |-> ZeroUser]
  /\ ok = [t \in T |-> FALSE]
  /\ lusers = [t \in T |-> <<>>]
  /\ visited = [t \in T |-> {}]
  /\ createLog = <<>>
  /\ deleted = [i \in Ids |-> 0]
  /\ snap = [t \in T |-> <<>>]
  /\ lin = [store |-> [users |-> <<>>, next |-> 1], ret |-> [t \in T |-> NoRet]]
  /\ http = [req |-> NoReq, resp |-> NoResp,
             pre |-> [users |-> <<>>, next |-> 1],
             called |-> FALSE, e2e |-> 0]

Init == InitOf(Threads)

\* What a goroutine does inside a call, once invoked.
Step(t) ==
  \/ MuLock(t)
  \/ MuLockEnter(t)
  \/ MuRLock(t)
  \/ MuRLockWake(t)
  \/ Create_39(t)
  \/ Create_44(t)
  \/ Create_45(t)
  \/ Create_46(t)
  \/ Get_54(t)
  \/ Get_55(t)
  \/ List_64(t)
  \/ List_66(t)
  \/ List_67(t)
  \/ Delete_75(t)
  \/ Delete_76(t)
  \/ Delete_77(t)
  \/ Delete_79(t)

Next ==
  \/ \E t \in Threads : InvokeCreate(t)
  \/ \E t \in Threads : InvokeGet(t)
  \/ \E t \in Threads : InvokeList(t)
  \/ \E t \in Threads : InvokeDelete(t)
  \/ \E t \in Threads : Step(t)

Spec == Init /\ [][Next]_vars

\* Scheduling: a goroutine that can run does run (the Go scheduler), and a
\* goroutine waiting in Lock for the inner mutex gets it if it is free again
\* and again (sync.Mutex hands the mutex over to a starving waiter).
Fairness == \A t \in Threads : WF_vars(Step(t)) /\ SF_vars(MuLock(t))

\* The same goroutines, calling Get and Delete with the first id only: which
\* id a call names plays no part in who waits for whom.
LiveIds == {1}

LiveNext ==
  \/ \E t \in Threads : InvokeCreate(t)
  \/ \E t \in Threads : InvokeGetOf(t, LiveIds)
  \/ \E t \in Threads : InvokeList(t)
  \/ \E t \in Threads : InvokeDeleteOf(t, LiveIds)
  \/ \E t \in Threads : Step(t)

LiveSpec == Init /\ [][LiveNext]_vars /\ Fairness

\* One writer and NThreads readers, calling with the first id only: a reader
\* inside, the writer behind it and a second reader behind the writer are
\* three calls.
RWThreads == 1..(NThreads + 1)
RWWriter == 1
RWReaders == RWThreads \ {RWWriter}

RWNext ==
  \/ InvokeCreate(RWWriter)
  \/ InvokeDeleteOf(RWWriter, LiveIds)
  \/ \E t \in RWReaders : InvokeGetOf(t, LiveIds)
  \/ \E t \in RWReaders : InvokeList(t)
  \/ \E t \in RWThreads : Step(t)

RWSpec == InitOf(RWThreads) /\ [][RWNext]_vars

\* One client and a fresh server: the client sends a request, the handler of
\* its route runs, calling the store, and writes the response; then the
\* client sends the next request.  The store is called by one goroutine at a
\* time, which never finds the lock taken and so is never parked in RLock.
HttpNext ==
  \/ \E r \in Requests : Receive(r)
  \/ HandleHealth(HttpThread)
  \/ HandleListUsers_96(HttpThread)
  \/ HandleListUsers_99(HttpThread)
  \/ HandleGetUser_105(HttpThread)
  \/ HandleGetUser_111(HttpThread)
  \/ HandleCreateUser_128(HttpThread)
  \/ HandleCreateUser_133(HttpThread)
  \/ HandleDeleteUser_143(HttpThread)
  \/ HandleDeleteUser_150(HttpThread)
  \/ HandleDeleteUser_154(HttpThread)
  \/ MuLock(HttpThread)
  \/ MuLockEnter(HttpThread)
  \/ MuRLock(HttpThread)
  \/ Create_39(HttpThread)
  \/ Create_44(HttpThread)
  \/ Create_45(HttpThread)
  \/ Get_54(HttpThread)
  \/ List_64(HttpThread)
  \/ List_66(HttpThread)
  \/ Delete_75(HttpThread)
  \/ Delete_76(HttpThread)

HttpSpec == Init /\ [][HttpNext]_vars

\* ================================================================ claims
Deletes == Sum(deleted, Ids)
\* The record a Create returned with id i.
Issued(i) == {createLog[k] : k \in {j \in 1..Len(createLog) : createLog[j].ID = i}}
\* Id i has been returned by a Create and by no successful Delete.
Live(i) == i \in IdsOf(createLog) /\ deleted[i] = 0
WriteInProgress == \E t \in Threads : InCall(t) /\ call[t].op \in {"Create", "Delete"}
OthersIdle(t) == \A u \in Threads \ {t} : pc[u] = "idle"

\* C1: no two Create calls ever return the same id, whatever Create, Get,
\* List and Delete calls run concurrently.
C1_UniqueIds ==
  \A i, j \in 1..Len(createLog) : i # j => createLog[i].ID # createLog[j].ID

\* C1 witness: all the Creates have returned, and a Delete has succeeded.
C1_Witness == Len(createLog) = MaxCreates /\ Deletes > 0

\* C2: once N concurrent Creates on a fresh store have all returned, with no
\* record deleted, the map holds exactly the ids 1..N, the ids returned are
\* exactly 1..N, and a List returning then returns N records.
C2_ConcurrentCreates ==
  (~WriteInProgress /\ Deletes = 0) =>
    /\ DOMAIN users = 1..Len(createLog)
    /\ IdsOf(createLog) = 1..Len(createLog)
    /\ \A t \in Threads : pc[t] = "List_67" => Len(lusers[t]) = Len(createLog)

\* C2 witness: every Create has returned, nothing was deleted, and a List is
\* returning all the records.
C2_Witness ==
  /\ ~WriteInProgress
  /\ Deletes = 0
  /\ Len(createLog) = MaxCreates
  /\ \E t \in Threads : pc[t] = "List_67" /\ Len(lusers[t]) = MaxCreates

\* C3: the ids Create returns are strictly increasing in the order of the
\* calls' critical sections (hence of their returns), deletes or not.
C3_IncreasingIds ==
  \A i, j \in 1..Len(createLog) : i < j => createLog[i].ID < createLog[j].ID

\* C3 witness: a Create has returned, its record has been deleted, and a
\* second Create is returning a larger id.
C3_Witness ==
  /\ Len(createLog) >= 1
  /\ deleted[createLog[1].ID] > 0
  /\ \E t \in Threads : pc[t] = "Create_46" /\ user[t].ID > createLog[1].ID

\* C4: at most one Create/Delete is between its Lock and its return, and then
\* no Get or List is between its RLock and its return.
C4_Exclusion ==
  /\ Cardinality({t \in Threads : Writing(t)}) <= 1
  /\ (\E t \in Threads : Writing(t)) => ~(\E u \in Threads : Reading(u))

\* C4 witness: a writer is in its critical section while another call waits.
C4_Witness ==
  \E t, u \in Threads :
    Writing(t) /\ pc[u] \in {"Lock", "RLockWait"}

\* C5: Delete(id) returns true exactly when id has been returned by a Create
\* and by no successful Delete yet, and false for every other id; so at most
\* one Delete per id ever returns true.
C5_DeleteOnce ==
  /\ \A t \in Threads :
       /\ pc[t] = "Delete_77" => Live(call[t].id)
       /\ pc[t] = "Delete_79" => ~Live(call[t].id)
  /\ \A i \in Ids : deleted[i] <= 1

\* C5 witness: a second Delete of an id returns false after the first returned
\* true.
C5_Witness ==
  \E t \in Threads : pc[t] = "Delete_79" /\ deleted[call[t].id] = 1

\* C6: what List returns is exactly the contents the map had at the instant
\* List got the read lock: nothing more, nothing less, nothing twice.
C6_ListSnapshot ==
  \A t \in Threads :
    pc[t] = "List_67" =>
      /\ SetOf(lusers[t]) = Values(snap[t])
      /\ Len(lusers[t]) = Cardinality(DOMAIN snap[t])

\* C6 witness: a List returns records while a writer has announced itself.
C6_Witness ==
  \E t, u \in Threads :
    /\ pc[t] = "List_67"
    /\ lusers[t] # <<>>
    /\ pc[u] = "LockWait"

\* C7: a Get of an id that a Create has returned, and that no Delete has
\* removed, finds the record, equal to the one that Create returned.
C7_GetAfterCreate ==
  \A t \in Threads :
    (pc[t] = "Get_55" /\ Live(call[t].id)) =>
      /\ ok[t]
      /\ Issued(call[t].id) = {user[t]}
      /\ user[t].ID = call[t].id
      /\ user[t].Name \in Names
      /\ user[t].Email \in Emails

\* C7 witness: a Get finds a record after another id was deleted.
C7_Witness ==
  \E t \in Threads :
    /\ pc[t] = "Get_55"
    /\ ok[t]
    /\ Live(call[t].id)
    /\ \E i \in Ids \ {call[t].id} : deleted[i] > 0

\* C8: a List that returns while no other call is in progress returns as many
\* records as Creates have returned minus Deletes that returned true.
C8_QuiescentLength ==
  \A t \in Threads :
    (pc[t] = "List_67" /\ OthersIdle(t)) =>
      Len(lusers[t]) = Len(createLog) - Deletes

\* C8 witness: such a List, after a successful Delete, with a record left.
C8_Witness ==
  \E t \in Threads :
    /\ pc[t] = "List_67"
    /\ OthersIdle(t)
    /\ Deletes > 0
    /\ lusers[t] # <<>>

\* C9: once Delete(id) has returned true, id is never in the map again, no Get
\* finds it, no List produces it and no Create gives it to a record.
C9_NeverReassigned ==
  \A i \in Ids :
    deleted[i] > 0 =>
      /\ i \notin DOMAIN users
      /\ \A t \in Threads :
           /\ (pc[t] = "Get_55" /\ call[t].id = i) => ~ok[t]
           /\ call[t].op = "List" => i \notin IdsOf(lusers[t])
           /\ pc[t] \in {"Create_44", "Create_45", "Create_46"} => user[t].ID # i
      /\ Cardinality({k \in 1..Len(createLog) : createLog[k].ID = i}) = 1

\* C9 witness: after a successful Delete a later Create is about to return,
\* and a Get of the deleted id is about to return.
C9_Witness ==
  \E i \in Ids :
    /\ deleted[i] > 0
    /\ \/ \E t \in Threads : pc[t] = "Create_46"
       \/ \E t \in Threads : pc[t] = "Get_55" /\ call[t].id = i

\* C10: under fair scheduling every invoked call returns.
C10_NoStarvation ==
  \A t \in Threads : InCall(t) ~> ~InCall(t)

\* C10 witness: a reader is parked behind a writer that is in its critical
\* section.
C10_Witness ==
  \E t, u \in Threads : pc[t] = "RLockWait" /\ Writing(u)

\* Goroutine t is in a call and cannot take a step: it waits for s.mu.
Blocked(t) == InCall(t) /\ ~ENABLED Step(t)

\* C11: no deadlock.  Whenever a call is in progress some goroutine in a call
\* can take a step; s.mu is held only by goroutines inside a call, the write
\* side by a Create or Delete and the read side by a Get or List; and when no
\* call is in progress the lock is free: no writer, no reader.
C11_NoDeadlock ==
  /\ (\E t \in Threads : InCall(t)) => (\E t \in Threads : InCall(t) /\ ~Blocked(t))
  /\ mu.w # NoThread =>
       /\ mu.w \in Threads
       /\ pc[mu.w] \in Body \cup {"LockWait"}
       /\ call[mu.w].op \in {"Create", "Delete"}
  /\ \A t \in mu.readers \cup mu.rblocked :
       /\ pc[t] \in Body \cup {"RLockWait"}
       /\ call[t].op \in {"Get", "List"}
  /\ (\A t \in Threads : ~InCall(t)) => mu = FreeMu

\* C11 witness: a call waits for the lock another call holds, and could not
\* take a step itself.
C11_Witness ==
  \E t, u \in Threads : Blocked(t) /\ pc[t] = "Lock" /\ Writing(u)

\* Goroutine u has the write lock: it is in the critical section of a Create
\* or Delete, or in a Lock that has no reader left to wait for.
HoldsWrite(u) == Writing(u) \/ (pc[u] = "LockWait" /\ mu.readers = {})
\* Goroutine u has called Lock in a Create or Delete and has not returned.
WriterArrived(u) ==
  call[u].op \in {"Create", "Delete"} /\ pc[u] \in Body \cup {"LockWait"}
WaitingReader(t) == call[t].op \in {"Get", "List"} /\ Blocked(t)

\* C12 as stated: a Get or List waits only while a Create or Delete is inside
\* its critical section.
C12_Original ==
  \A t \in DOMAIN pc : WaitingReader(t) => \E u \in DOMAIN pc : HoldsWrite(u)

\* C12, amended: a Get or List that calls RLock when no Create or Delete has
\* called Lock gets the read lock at once, whatever Get and List calls are
\* inside; and a Get or List waits only while a Create or Delete has called
\* Lock and not yet returned, be it inside its critical section or still
\* waiting for the readers that were in before it.
C12_ReadersWaitForWriters ==
  /\ \A t \in DOMAIN pc :
       (pc[t] = "RLock" /\ ~(\E u \in DOMAIN pc : WriterArrived(u))) =>
         ENABLED (MuRLock(t) /\ pc'[t] \in Body)
  /\ \A t \in DOMAIN pc : WaitingReader(t) => \E u \in DOMAIN pc : WriterArrived(u)

\* C12 witness: a reader is inside, a writer waits in Lock for it to leave,
\* and a second reader waits behind that writer.
C12_Witness ==
  \E t, u, v \in DOMAIN pc :
    /\ Reading(t)
    /\ call[u].op \in {"Create", "Delete"} /\ pc[u] = "LockWait"
    /\ WaitingReader(v)

\* Every key of the map is below s.next.
KeysBelowNext == \A k \in DOMAIN users : k < next
\* The Create calls that have executed s.next++: those returned and those at
\* their return statement.
CreatesPastIncrement ==
  Len(createLog) + Cardinality({t \in Threads : pc[t] = "Create_46"})

\* C16 as stated: in every reachable state s.next is above every id issued
\* and above every key of the map.
C16_Original ==
  /\ \A i \in IdsOf(createLog) : i < next
  /\ KeysBelowNext

\* C16, amended: s.next is 1 plus the number of Creates that have executed
\* s.next++ (it starts at 1, never decreases, and each Create advances it by
\* exactly 1); it is above every id a Create has returned or is returning;
\* and it is above every key of the map in every state in which no Create is
\* between its insertion (line 44) and its increment (line 45), where the
\* key just inserted equals s.next.
C16_NextAboveIds ==
  /\ next = 1 + CreatesPastIncrement
  /\ \A i \in IdsOf(createLog) : i < next
  /\ \A t \in Threads : pc[t] = "Create_46" => user[t].ID < next
  /\ (\A t \in Threads : pc[t] # "Create_45") => KeysBelowNext
  /\ \A t \in Threads : pc[t] = "Create_45" =>
       /\ next \in DOMAIN users
       /\ \A k \in DOMAIN users : k <= next

\* C16 witness: the last Create is returning, after a record was deleted.
C16_Witness ==
  /\ \E t \in Threads : pc[t] = "Create_46" /\ user[t].ID = MaxCreates
  /\ next = MaxCreates + 1
  /\ Deletes > 0

\* C17: the map and the counter change as one unit.  While a Create is
\* between its insertion and its increment no other call is inside a critical
\* section, so none observes that state; every state a Get or List is in
\* while it holds the read lock, and the state a Create or Delete finds when
\* it gets the write lock, has all keys below s.next.
C17_AtomicUpdate ==
  /\ \A t \in Threads : pc[t] = "Create_45" =>
       \A u \in Threads \ {t} : ~InBody(u)
  /\ \A t \in Threads : Reading(t) => KeysBelowNext
  /\ \A t \in Threads : pc[t] \in {"Create_39", "Delete_75"} => KeysBelowNext

\* C17 witness: a Create is between insertion and increment while a Get or
\* List is kept waiting for the read lock.
C17_Witness ==
  \E t, u \in Threads :
    /\ pc[t] = "Create_45"
    /\ ~KeysBelowNext
    /\ call[u].op \in {"Get", "List"} /\ pc[u] = "RLockWait"

\* C18: every record in the map has its key as id, and is the record the
\* Create that issued that id built from the name and email it was passed
\* and returned (or is about to return): no record changes between its
\* creation and its deletion.
C18_RecordsImmutable ==
  /\ \A k \in DOMAIN users :
       /\ users[k].ID = k
       /\ \/ Issued(k) = {users[k]}
          \/ /\ Issued(k) = {}
             /\ \E t \in Threads :
                  pc[t] \in {"Create_45", "Create_46"} /\ user[t] = users[k]
  /\ \A t \in Threads : pc[t] \in {"Create_44", "Create_45", "Create_46"} =>
       /\ user[t].Name = call[t].name
       /\ user[t].Email = call[t].email

\* C18 witness: every Create has returned, a record has been deleted, and a
\* Get is returning a record still in the map.
C18_Witness ==
  /\ Len(createLog) = MaxCreates
  /\ Deletes > 0
  /\ \E t \in Threads : pc[t] = "Get_55" /\ ok[t] /\ Issued(call[t].id) = {user[t]}

\* Map n has every entry of map m, unchanged.
Keeps(m, n) == \A k \in DOMAIN m : k \in DOMAIN n /\ n[k] = m[k]

\* C19: frame conditions.  At its return a Get, a List and a Delete returning
\* false find the map as it was when they got the lock; a Delete returning
\* true has removed the entry of its id and only that one, every other entry
\* being as it was; a Create has added one entry, under a key that was not
\* there, and changed no other.  s.next changes only in a Create, at s.next++.
C19_Frame ==
  /\ [](\A t \in Threads :
         /\ pc[t] \in {"Get_55", "List_67", "Delete_79"} => users = snap[t]
         /\ pc[t] = "Delete_77" =>
              /\ call[t].id \in DOMAIN snap[t]
              /\ DOMAIN users = DOMAIN snap[t] \ {call[t].id}
              /\ Keeps(users, snap[t])
         /\ pc[t] = "Create_46" =>
              /\ user[t].ID \notin DOMAIN snap[t]
              /\ DOMAIN users = DOMAIN snap[t] \cup {user[t].ID}
              /\ Keeps(snap[t], users))
  /\ [][next' # next =>
         \E t \in Threads :
           call[t].op = "Create" /\ pc[t] = "Create_45" /\ pc'[t] = "Create_46"]_vars

\* C19 witness: a Delete is returning true and has left another entry in
\* the map.
C19_Witness ==
  \E t \in Threads :
    pc[t] = "Delete_77" /\ DOMAIN users # {} /\ Keeps(users, snap[t])

\* C20: the store is linearizable.  Each call takes effect on a plain map and
\* counter in one step taken between its invocation and its return (when it
\* gets the lock), so the calls take effect one at a time in an order that
\* respects real-time precedence; what each call returns is what the plain
\* store returned to it; and whenever no Create or Delete is inside its
\* critical section the store equals the plain store.
C20_Linearizable ==
  /\ \A t \in Threads :
       /\ pc[t] = "Create_46" => user[t] = lin.ret[t].user
       /\ pc[t] = "Get_55" => user[t] = lin.ret[t].user /\ ok[t] = lin.ret[t].ok
       /\ pc[t] = "List_67" =>
            /\ SetOf(lusers[t]) = lin.ret[t].list
            /\ Len(lusers[t]) = Cardinality(lin.ret[t].list)
       /\ pc[t] = "Delete_77" => lin.ret[t].ok
       /\ pc[t] = "Delete_79" => ~lin.ret[t].ok
       /\ lin.ret[t] # NoRet => InBody(t)
  /\ (\A t \in Threads : ~Writing(t)) => lin.store = [users |-> users, next |-> next]

\* C20 witness: a Get is returning the record the plain store returned to
\* it, while a Create or Delete invoked before that return waits for the lock.
C20_Witness ==
  \E t, u \in Threads :
    /\ pc[t] = "Get_55" /\ ok[t] /\ lin.ret[t].ok
    /\ call[u].op \in {"Create", "Delete"} /\ pc[u] \in {"Lock", "LockWait"}

\* The last request has been answered; Asked is that request.
Answered == http.req = NoReq /\ http.resp # NoResp
Asked == http.resp.req
StoreNow == [users |-> users, next |-> next]
\* The text s writes an integer: an optional sign and one or more digits.
IsIntegerText(s) ==
  LET digits == IF s # <<>> /\ s[1] \in {"+", "-"} THEN Tail(s) ELSE s
  IN  digits # <<>> /\ \A i \in 1..Len(digits) : digits[i] \in SetOf(DigitChars)
IntegerOf(s) ==
  IF s[1] = "-" THEN 0 - Decimal(Tail(s))
  ELSE IF s[1] = "+" THEN Decimal(Tail(s)) ELSE Decimal(s)
\* The body b can be read as {name, email}: a JSON object in which name and
\* email, where there, are strings.
Parsable(b) ==
  b.kind = "object" /\ b.name.t # "number" /\ b.email.t # "number"

\* C13: end to end, on a fresh server with one client.  POST /users with a
\* well-formed body is answered 201 with the record of id 1 and the posted
\* name and email; GET /users/1 sent next is answered 200 with that record
\* (the one Create returned); DELETE /users/1 sent next is answered 204; and
\* GET /users/1 sent next is answered 404.
C13_EndToEnd ==
  Answered =>
    /\ http.e2e = 1 =>
         /\ http.resp.status = StatusCreated
         /\ http.resp.body = UserBody([ID |-> 1, Name |-> Asked.body.name.s,
                                         Email |-> Asked.body.email.s])
         /\ createLog = <<http.resp.body.user>>
    /\ http.e2e = 2 =>
         /\ http.resp.status = StatusOK
         /\ http.resp.body = UserBody(createLog[1])
         /\ createLog[1].ID = 1
    /\ http.e2e = 3 =>
         /\ http.resp.status = StatusNoContent
         /\ http.resp.body = NoContent
    /\ http.e2e = 4 => http.resp.status = StatusNotFound

\* C13 witness: the fourth request of the sequence has been answered 404.
C13_Witness ==
  Answered /\ http.e2e = 4 /\ http.resp.status = StatusNotFound /\ users = <<>>

\* C14: GET and DELETE /users/{id}.  An id that is not an integer is answered
\* 400 with no method of the store called; an integer id not in the map is
\* answered 404; in both cases the map and s.next are as they were when the
\* request arrived.  An id in the map is answered 200 with its record by GET,
\* which changes nothing, and 204 by DELETE, which removes it.
C14_PathId ==
  (Answered /\ Asked.route = "/users/{id}") =>
    IF ~IsIntegerText(Asked.id)
      THEN /\ http.resp.status = StatusBadRequest
           /\ ~http.called
           /\ StoreNow = http.pre
    ELSE IF IntegerOf(Asked.id) \notin DOMAIN http.pre.users
      THEN /\ http.resp.status = StatusNotFound
           /\ StoreNow = http.pre
    ELSE IF Asked.method = "GET"
      THEN /\ http.resp.status = StatusOK
           /\ http.resp.body = UserBody(http.pre.users[IntegerOf(Asked.id)])
           /\ StoreNow = http.pre
      ELSE /\ http.resp.status = StatusNoContent
           /\ IntegerOf(Asked.id) \notin DOMAIN users
           /\ next = http.pre.next

\* C14 witness: with a record in the map, a DELETE with an id that is not an
\* integer has been answered 400.
C14_Witness ==
  /\ Answered
  /\ Asked.method = "DELETE"
  /\ ~IsIntegerText(Asked.id)
  /\ http.resp.status = StatusBadRequest
  /\ DOMAIN users # {}

\* C15: POST /users with a body that cannot be read as {name, email} is
\* answered 400 with no method of the store called: no record is added and
\* s.next is as it was.  So a POST that succeeds gets the id s.next had when
\* it arrived, one more than the Creates before it, however many POSTs were
\* rejected on the way.
C15_MalformedPost ==
  (Answered /\ Asked.method = "POST") =>
    IF ~Parsable(Asked.body)
      THEN /\ http.resp.status = StatusBadRequest
           /\ ~http.called
           /\ StoreNow = http.pre
      ELSE /\ http.resp.status = StatusCreated
           /\ http.resp.body.user.ID = http.pre.next
           /\ http.resp.body.user.ID = Len(createLog)
           /\ next = http.pre.next + 1

\* C15 witness: after a POST that succeeded, a POST with a body that is not
\* JSON has been answered 400.
C15_Witness ==
  /\ Answered
  /\ Asked.method = "POST"
  /\ Asked.body = NotJson
  /\ http.resp.status = StatusBadRequest
  /\ Len(createLog) >= 1

====
